---- MODULE Spec2Model ----
(***************************************************************************)
(* modelld: immutable Field / Model values over RDF quads, the per-graph   *)
(* diff of a model, and save(), which patches every resource of the diff   *)
(* and folds the outcomes back into a new model.                           *)
(*                                                                         *)
(* Model is the class of src/src/model.js (lines 1-316); Field is the      *)
(* class whose methods that Model calls (src/unnamed/part_005).            *)
(***************************************************************************)
EXTENDS Integers, Sequences, FiniteSets, TLC

(***************************************************************************)
(* Bounds of the exploration.                                              *)
(***************************************************************************)
\* number of add / remove / set calls applied to the models of one run
MaxOps == 2
\* number of save() calls of one run
MaxSaves == 2

(***************************************************************************)
(* RDF terms, quads and the source configuration.                          *)
(***************************************************************************)
\* the subject of the model (rdf.namedNode(subjectStr))
Subject == "me"

\* field keys of the schema, in Object.keys(fieldCreators) order
KeyOrder == <<"name", "phone">>

Keys == {KeyOrder[i] : i \in 1..Len(KeyOrder)}

\* the predicate a field creator was built for
PredicateOf(key) == IF key = "name" THEN "foaf:name" ELSE "foaf:phone"

\* graph (resource) URIs
ListedURI == "card"

UnlistedURI == "unlisted"

OtherUnlistedURI == "another-unlisted"

UnknownURI == "unknown-server"

GraphURIs == {ListedURI, UnlistedURI, OtherUnlistedURI, UnknownURI}

\* field values: one that valid-url's isUri accepts and one that it rejects
Values == {"Cool", "tel:1"}

isUri(value) == value \in {"tel:1"}

\* the JavaScript value undefined, where a string is expected
Undefined == "undefined"

\* the JavaScript value null, where a string is expected
Null == "null"

\* an RDF term (rdf.namedNode / rdf.Literal.fromValue)
namedNode(value) == [termType |-> "NamedNode", value |-> value]

LiteralFromValue(value) == [termType |-> "Literal", value |-> value]

\* an absent originalObject
UndefinedTerm == [termType |-> "undefined", value |-> Undefined]

\* util.isDefined, for a string (a value or a graph URI)
isDefined(obj) == obj # Undefined

\* util.isDefined, for an RDF term
isDefinedTerm(term) == term # UndefinedTerm

\* an optional boolean: <<b>> when given, <<>> when undefined
UndefinedFlag == <<>>

Flag(b) == <<b>>

isDefinedFlag(flag) == flag # UndefinedFlag

\* the JavaScript value null, where an optional boolean is expected: a flag
\* that is neither undefined nor one boolean
NullFlag == <<FALSE, FALSE>>

\* the sourceConfig of the tests: both defaults are indexed, one more graph
\* is indexed, one graph is unfamiliar
StandardConfig ==
  [defaultSources |-> [listed |-> ListedURI, unlisted |-> UnlistedURI],
   sourceIndex |-> [u \in {ListedURI, UnlistedURI, OtherUnlistedURI} |-> u = ListedURI]]

\* a sourceConfig whose default graphs are absent from sourceIndex
UnindexedDefaultsConfig ==
  [defaultSources |-> [listed |-> ListedURI, unlisted |-> UnlistedURI],
   sourceIndex |-> [u \in {OtherUnlistedURI} |-> FALSE]]

SourceConfigs == {StandardConfig, UnindexedDefaultsConfig}

\* the mutant of IndexLookup: a URI that is not a key counts as listed
IndexLookupAbsentListed(cfg, uri) ==
  IF uri \in DOMAIN cfg.sourceIndex THEN Flag(cfg.sourceIndex[uri]) ELSE Flag(TRUE)

\* sourceIndex[uri], undefined for a URI that is not a key
IndexLookup(cfg, uri) ==
  IF uri \in DOMAIN cfg.sourceIndex THEN Flag(cfg.sourceIndex[uri]) ELSE UndefinedFlag

\* rdf.quad(subject, predicate, object, graph)
quad(subject, predicate, object, graph) ==
  [subject |-> subject, predicate |-> predicate, object |-> object, graph |-> graph]

\* the absent quad (originalQuad returns null)
NullQuad == [subject |-> "null", predicate |-> "null", object |-> UndefinedTerm, graph |-> "null"]

\* Statement.equals: subject, predicate, object and graph all equal
quadEquals(q1, q2) ==
  /\ q1.subject = q2.subject
  /\ q1.predicate = q2.predicate
  /\ q1.object = q2.object
  /\ q1.graph = q2.graph

\* Statement.toString: "<s> <p> o ." -- the graph is not part of the text,
\* the object prints as <value> or "value" by its term type
quadToString(q) == <<q.subject, q.predicate, q.object.termType, q.object.value>>

(***************************************************************************)
(* Field                                                                   *)
(***************************************************************************)
\* an absent sourceConfig
UndefinedConfig ==
  [defaultSources |-> [listed |-> Undefined, unlisted |-> Undefined],
   sourceIndex |-> [u \in {} |-> FALSE]]

\* util.isDefined, for a sourceConfig
isDefinedConfig(cfg) == cfg # UndefinedConfig

\* the Error the Field constructor throws
InsufficientArguments == [message |-> "Insufficient arguments."]

\* the mutant of insufficientArguments: a predicate and a sourceConfig are
\* enough
insufficientArgumentsNoValue(predicate, value, originalObject, cfg) ==
  ~(isDefined(predicate) /\ isDefinedConfig(cfg))

\* the test the Field constructor throws on
insufficientArguments(predicate, value, originalObject, cfg) ==
  \/ ~(isDefined(predicate) /\ isDefinedConfig(cfg))
  \/ ~(isDefined(value) \/ isDefinedTerm(originalObject))

\* the mutant of createField: a value that is given is written into the
\* original object as well
createFieldRebasing(id, predicate, value, listed, originalObject, originalSource, cfg) ==
  LET value1 == IF isDefinedTerm(originalObject) THEN originalObject.value ELSE Undefined
      listed1 == IF isDefined(originalSource)
                   THEN IndexLookup(cfg, originalSource) ELSE UndefinedFlag
      value2 == IF isDefined(value) THEN value ELSE value1
      listed2 == IF isDefinedFlag(listed) THEN listed[1]
                 ELSE IF isDefinedFlag(listed1) THEN listed1[1] ELSE FALSE
  IN IF insufficientArguments(predicate, value, originalObject, cfg)
       THEN InsufficientArguments
       ELSE [id |-> id,
             predicate |-> predicate,
             value |-> value2,
             listed |-> listed2,
             originalObject |-> IF isDefinedTerm(originalObject)
                                  THEN [originalObject EXCEPT !.value = value2]
                                  ELSE originalObject,
             originalSource |-> originalSource,
             sourceConfig |-> cfg]

\* Field constructor; id is the uuid the constructor draws, listed is an
\* optional boolean, cfg is the sourceConfig the field keeps
createField(id, predicate, value, listed, originalObject, originalSource, cfg) ==
  LET value1 == IF isDefinedTerm(originalObject) THEN originalObject.value ELSE Undefined
      listed1 == IF isDefined(originalSource)
                   THEN IndexLookup(cfg, originalSource) ELSE UndefinedFlag
      value2 == IF isDefined(value) THEN value ELSE value1
      listed2 == IF isDefinedFlag(listed) THEN listed[1]
                 ELSE IF isDefinedFlag(listed1) THEN listed1[1] ELSE FALSE
  IN IF insufficientArguments(predicate, value, originalObject, cfg)
       THEN InsufficientArguments
       ELSE [id |-> id,
             predicate |-> predicate,
             value |-> value2,
             listed |-> listed2,
             originalObject |-> originalObject,
             originalSource |-> originalSource,
             sourceConfig |-> cfg]

\* fieldCreator(value, options): an ad hoc field
fieldCreator(id, key, value, listed, cfg) ==
  createField(id, PredicateOf(key), value, listed, UndefinedTerm, Undefined, cfg)

\* the mutant of fromQuad: the graph of the quad is not handed on
fromQuadWithoutGraph(id, q, cfg) ==
  createField(id, q.predicate, Undefined, UndefinedFlag, q.object, Undefined, cfg)

\* fieldCreator.fromQuad(quad)
fromQuad(id, q, cfg) ==
  createField(id, q.predicate, Undefined, UndefinedFlag, q.object, q.graph, cfg)

\* the mutant of getCurrentSource: the graph the field came from is ignored
getCurrentSourceDefaultOnly(field) ==
  IF field.listed THEN field.sourceConfig.defaultSources.listed
  ELSE field.sourceConfig.defaultSources.unlisted

\* Field.getCurrentSource: the URI of the graph the field now belongs to
getCurrentSource(field) ==
  LET defaultSources == field.sourceConfig.defaultSources
      uriIsListed(uri) == IF isDefinedFlag(IndexLookup(field.sourceConfig, uri))
                            THEN IndexLookup(field.sourceConfig, uri)[1] ELSE FALSE
  IN IF isDefined(field.originalSource)
        /\ field.listed = uriIsListed(field.originalSource)
     THEN field.originalSource
     ELSE IF field.listed THEN defaultSources.listed
          ELSE defaultSources.unlisted

\* Field.toQuad: the quad of the field's current state
toQuad(field) ==
  LET object == IF isDefinedTerm(field.originalObject)
                  THEN [field.originalObject EXCEPT !.value = field.value]
                  ELSE IF isUri(field.value) THEN namedNode(field.value)
                       ELSE LiteralFromValue(field.value)
  IN quad(Subject, field.predicate, object, getCurrentSource(field))

\* the mutant of originalQuad: the quad is placed in the field's current
\* source
originalQuadInCurrentSource(field) ==
  IF ~isDefinedTerm(field.originalObject) THEN NullQuad
  ELSE quad(Subject, field.predicate, field.originalObject, getCurrentSource(field))

\* Field.originalQuad: the quad the field was built from, or null
originalQuad(field) ==
  IF ~isDefinedTerm(field.originalObject) THEN NullQuad
  ELSE quad(Subject, field.predicate, field.originalObject, field.originalSource)

\* the mutant of FieldSet: the new field takes the current source of the
\* old one as the graph it came from
FieldSetFromCurrentSource(id, field, value, listed) ==
  LET value1 == IF isDefined(value) THEN value ELSE Null
      listed1 == IF isDefinedFlag(listed) THEN listed ELSE NullFlag
  IN createField(id, field.predicate,
                 IF value1 # Null THEN value1 ELSE field.value,
                 IF listed1 # NullFlag THEN listed1 ELSE Flag(field.listed),
                 field.originalObject,
                 IF isDefined(field.originalSource) THEN getCurrentSource(field)
                 ELSE Undefined,
                 field.sourceConfig)

\* Field.set({value = null, listed = null}): an option that is left out
\* takes the default null, and null keeps the field's current value /
\* listed flag
FieldSet(id, field, value, listed) ==
  LET value1 == IF isDefined(value) THEN value ELSE Null
      listed1 == IF isDefinedFlag(listed) THEN listed ELSE NullFlag
  IN createField(id, field.predicate,
                 IF value1 # Null THEN value1 ELSE field.value,
                 IF listed1 # NullFlag THEN listed1 ELSE Flag(field.listed),
                 field.originalObject, field.originalSource, field.sourceConfig)

\* the mutant of toggleListed: the field is made listed
toggleListedOn(id, field) == FieldSet(id, field, Undefined, Flag(TRUE))

\* Field.toggleListed
toggleListed(id, field) == FieldSet(id, field, Undefined, Flag(~field.listed))

\* the mutant of fromCurrentState: a field that came from a graph keeps it
\* as the graph it came from
fromCurrentStateKeepingSource(id, field) ==
  LET currentQuad == toQuad(field)
  IN createField(id, field.predicate, Undefined, UndefinedFlag,
                 currentQuad.object,
                 IF isDefined(field.originalSource) THEN field.originalSource
                 ELSE currentQuad.graph,
                 field.sourceConfig)

\* Field.fromCurrentState: a field tracking the current state as original
fromCurrentState(id, field) ==
  LET currentQuad == toQuad(field)
  IN createField(id, field.predicate, Undefined, UndefinedFlag,
                 currentQuad.object, currentQuad.graph, field.sourceConfig)

(***************************************************************************)
(* Model                                                                   *)
(***************************************************************************)
\* new Model(subject, fields, graveyard = [])
Model(fields, graveyard) == [fields |-> fields, graveyard |-> graveyard]

\* the live fields of all keys in one array, in key order
\* (fields.toArray().reduce((reduction, cur) => [...reduction, ...cur]))
RECURSIVE FlattenFrom(_, _)
FlattenFrom(fields, k) ==
  IF k > Len(KeyOrder) THEN <<>>
  ELSE fields[KeyOrder[k]] \o FlattenFrom(fields, k + 1)

Flatten(fields) == FlattenFrom(fields, 1)

\* array.filter, keeping the fields f with (f.id === id) = matching
RECURSIVE filterById(_, _, _)
filterById(arr, id, matching) ==
  IF arr = <<>> THEN <<>>
  ELSE (IF (Head(arr).id = id) = matching THEN <<Head(arr)>> ELSE <<>>)
       \o filterById(Tail(arr), id, matching)

\* the mutant of add: a field that equals a field of the key, the id
\* aside, is not added again
addDeduplicated(m, key, field) ==
  IF \E i \in 1..Len(m.fields[key]) : [m.fields[key][i] EXCEPT !.id = field.id] = field
    THEN Model(m.fields, <<>>)
    ELSE Model([m.fields EXCEPT ![key] = Append(@, field)], <<>>)

\* Model.add: the graveyard argument is not passed on to the new model
add(m, key, field) ==
  Model([m.fields EXCEPT ![key] = Append(@, field)], <<>>)

\* the positions <<key, index>> of the live fields of a model
Positions(m) == UNION {{<<k, i>> : i \in 1..Len(m.fields[k])} : k \in Keys}

\* the mutant of map: the graveyard is not passed on to the new model
mapDroppingGraveyard(m, fn) ==
  Model([k \in Keys |-> [i \in 1..Len(m.fields[k]) |-> fn[<<k, i>>]]],
        <<>>)

\* Model.map: fn[<<key, i>>] is the callback's result for the live field at
\* index i of key
map(m, fn) ==
  Model([k \in Keys |-> [i \in 1..Len(m.fields[k]) |-> fn[<<k, i>>]]],
        m.graveyard)

\* Model.find, for the predicate f => f.id === id
findById(m, id) == \E i \in 1..Len(Flatten(m.fields)) : Flatten(m.fields)[i].id = id

\* the mutant of filterToGraveyard: the fields removed before are dropped
filterToGraveyardFresh(m, id) ==
  Model([k \in Keys |-> filterById(m.fields[k], id, FALSE)],
        filterById(Flatten(m.fields), id, TRUE))

\* Model.filterToGraveyard, for the predicate f => f.id !== id
filterToGraveyard(m, id) ==
  Model([k \in Keys |-> filterById(m.fields[k], id, FALSE)],
        m.graveyard \o filterById(Flatten(m.fields), id, TRUE))

\* the mutant of remove: no membership test, the field handed in is buried
removeUnchecked(m, id) ==
  Model([k \in Keys |-> filterById(m.fields[k], id, FALSE)],
        Append(m.graveyard,
               fieldCreator(id, KeyOrder[1], "Cool", UndefinedFlag, StandardConfig)))

\* Model.remove
remove(m, id) ==
  IF ~findById(m, id) THEN m ELSE filterToGraveyard(m, id)

\* the mutant of ModelSet: the field that Field.set builds takes the id of
\* the field it replaces
ModelSetKeepingId(m, id, newId, value, listed) ==
  LET fn == [p \in Positions(m) |->
               LET field == m.fields[p[1]][p[2]]
               IN IF field.id = id
                    THEN FieldSet(field.id, field, value, listed)
                    ELSE field]
  IN map(m, fn)

\* Model.set: newId is the uuid of the field that Field.set builds
ModelSet(m, id, newId, value, listed) ==
  LET fn == [p \in Positions(m) |->
               LET field == m.fields[p[1]][p[2]]
               IN IF field.id = id
                    THEN FieldSet(newId, field, value, listed)
                    ELSE field]
  IN map(m, fn)

\* the mutant of clearGraveyard: the graveyard is kept
clearGraveyardKept(m) == m

\* Model.clearGraveyard
clearGraveyard(m) == Model(m.fields, <<>>)

(***************************************************************************)
(* Model.diff: the diff map is an object whose keys are graph URIs; it is  *)
(* kept as the sequence of its entries in key insertion order.             *)
(***************************************************************************)
\* Object.keys(diffMap)
DiffKeys(diffMap) == [i \in 1..Len(diffMap) |-> diffMap[i].uri]

KeySet(diffMap) == {diffMap[i].uri : i \in 1..Len(diffMap)}

\* if (!isDefined(map[uri])) map[uri] = {toDel: [], toIns: []}
Ensure(diffMap, uri) ==
  IF uri \in KeySet(diffMap) THEN diffMap
  ELSE Append(diffMap, [uri |-> uri, toDel |-> <<>>, toIns |-> <<>>])

\* the mutant of PushDel: the string is pushed onto toIns
PushDelIntoIns(diffMap, uri, str) ==
  LET m == Ensure(diffMap, uri)
  IN [i \in 1..Len(m) |-> IF m[i].uri = uri
                            THEN [m[i] EXCEPT !.toIns = Append(@, str)] ELSE m[i]]

\* map[uri].toDel.push(str)
PushDel(diffMap, uri, str) ==
  LET m == Ensure(diffMap, uri)
  IN [i \in 1..Len(m) |-> IF m[i].uri = uri
                            THEN [m[i] EXCEPT !.toDel = Append(@, str)] ELSE m[i]]

\* the mutant of PushIns: the string is pushed onto toDel
PushInsIntoDel(diffMap, uri, str) == PushDel(diffMap, uri, str)

\* map[uri].toIns.push(str)
PushIns(diffMap, uri, str) ==
  LET m == Ensure(diffMap, uri)
  IN [i \in 1..Len(m) |-> IF m[i].uri = uri
                            THEN [m[i] EXCEPT !.toIns = Append(@, str)] ELSE m[i]]

\* the mutant of diffField: an unchanged field is written again
diffFieldUnconditional(previousMap, field) ==
  LET newQuad == toQuad(field)
      newSourceURI == newQuad.graph
      origQuad == originalQuad(field)
      originalSourceURI == origQuad.graph
      afterDel == IF origQuad # NullQuad
                    THEN PushDel(previousMap, originalSourceURI, quadToString(origQuad))
                    ELSE previousMap
  IN PushIns(afterDel, newSourceURI, quadToString(newQuad))

\* the reducer of diff over one live field
diffField(previousMap, field) ==
  LET newQuad == toQuad(field)
      newSourceURI == newQuad.graph
      origQuad == originalQuad(field)
      originalSourceURI == origQuad.graph
      fieldHasChanged == origQuad = NullQuad \/ ~quadEquals(newQuad, origQuad)
      afterDel == IF origQuad # NullQuad
                    THEN PushDel(previousMap, originalSourceURI, quadToString(origQuad))
                    ELSE previousMap
  IN IF fieldHasChanged
       THEN PushIns(afterDel, newSourceURI, quadToString(newQuad))
       ELSE previousMap

RECURSIVE diffLive(_, _)
diffLive(previousMap, flat) ==
  IF flat = <<>> THEN previousMap
  ELSE diffLive(diffField(previousMap, Head(flat)), Tail(flat))

\* the mutant of diffGraveyard: the entry of the graph a removed field
\* resolves to is created before the test for an original quad
diffGraveyardEnsuringFirst(diffMap, graveyard) ==
  LET RECURSIVE loop(_, _)
      loop(d, rest) ==
        IF rest = <<>> THEN d
        ELSE LET q == originalQuad(Head(rest))
                 ensured == Ensure(d, getCurrentSource(Head(rest)))
             IN loop(IF q # NullQuad THEN PushDel(ensured, q.graph, quadToString(q))
                     ELSE ensured,
                     Tail(rest))
  IN loop(diffMap, graveyard)

\* the graveyard loop of diff
RECURSIVE diffGraveyard(_, _)
diffGraveyard(diffMap, graveyard) ==
  IF graveyard = <<>> THEN diffMap
  ELSE LET q == originalQuad(Head(graveyard))
       IN diffGraveyard(IF q # NullQuad THEN PushDel(diffMap, q.graph, quadToString(q))
                        ELSE diffMap,
                        Tail(graveyard))

\* Model.diff
diff(m) == diffGraveyard(diffLive(<<>>, Flatten(m.fields)), m.graveyard)

(***************************************************************************)
(* Model.save and patchURIs                                                *)
(***************************************************************************)
\* the mutant of patchCalls: toDel and toIns are passed in the wrong order
patchCallsSwapped(diffMap) ==
  [i \in 1..Len(diffMap) |->
     [uri |-> diffMap[i].uri, toDel |-> diffMap[i].toIns, toIns |-> diffMap[i].toDel]]

\* the webClient.patch calls of patchURIs, one per key of the diff map
patchCalls(diffMap) ==
  [i \in 1..Len(diffMap) |->
     [uri |-> diffMap[i].uri, toDel |-> diffMap[i].toDel, toIns |-> diffMap[i].toIns]]

\* the result object of one settled patch call; the transport echoes the
\* resource URI in solidResponse.url
sourceResult(uri, succeeded) == [URI |-> uri, succeeded |-> succeeded]

\* the mutant of allSettled: Promise.all over promises without a catch
\* handler, which settles at the first failure
settledAtFirstFailure(unsettled, sourceResults) ==
  unsettled = {} \/ \E r \in sourceResults : ~r.succeeded

\* Promise.all over the patch promises, each of which was given a catch
\* handler: it settles when every patch call has settled
allSettled(unsettled, sourceResults) == unsettled = {}

\* the mutant of patchedURIsOf: the results are not filtered, the URI of
\* every settled patch counts
patchedURIsOfEverySettled(sourceResults) ==
  {r.URI : r \in sourceResults}

\* the set patchURIs resolves to: the URIs whose patch succeeded
patchedURIsOf(sourceResults) ==
  {r.URI : r \in {x \in sourceResults : x.succeeded}}

\* the mutant of isPatched: every field is rebuilt once some patch succeeded
isPatchedAny(patchedURIs, field) == patchedURIs # {}

\* the test of save's map callback: was the field's current source patched
isPatched(patchedURIs, field) == getCurrentSource(field) \in patchedURIs

\* number of live fields in front of position i of key
Offset(m, key, i) ==
  LET before == {k \in 1..Len(KeyOrder) :
                   \E j \in 1..Len(KeyOrder) : KeyOrder[j] = key /\ k < j}
      RECURSIVE Sum(_)
      Sum(S) == IF S = {} THEN 0
                ELSE LET k == CHOOSE x \in S : TRUE
                     IN Len(m.fields[KeyOrder[k]]) + Sum(S \ {k})
  IN Sum(before) + (i - 1)

\* the mutant of updatedModelOf: a removed field stays in the graveyard
\* unless the graph of its original quad was patched
updatedModelOfKeepingFailed(m, patchedURIs, firstId) ==
  LET fn == [p \in Positions(m) |->
               LET field == m.fields[p[1]][p[2]]
               IN IF isPatched(patchedURIs, field)
                    THEN fromCurrentState(firstId + Offset(m, p[1], p[2]), field)
                    ELSE field]
      RECURSIVE Unpatched(_)
      Unpatched(graveyard) ==
        IF graveyard = <<>> THEN <<>>
        ELSE (IF Head(graveyard).originalSource \in patchedURIs THEN <<>>
              ELSE <<Head(graveyard)>>) \o Unpatched(Tail(graveyard))
  IN Model(map(m, fn).fields, Unpatched(m.graveyard))

\* the model save builds once the patches settled; firstId is the first of
\* the uuids drawn for the fields rebuilt from their current state
updatedModelOf(m, patchedURIs, firstId) ==
  LET fn == [p \in Positions(m) |->
               LET field == m.fields[p[1]][p[2]]
               IN IF isPatched(patchedURIs, field)
                    THEN fromCurrentState(firstId + Offset(m, p[1], p[2]), field)
                    ELSE field]
  IN clearGraveyard(map(m, fn))

\* the Error save throws inside its then callback
saveError(updatedModel, diffMap, sourceResults) ==
  [message |-> "Not all patches succeeded", model |-> updatedModel]

\* the mutant of allPatchesSucceded: one succeeded patch is enough
somePatchSucceeded(patchedURIs, urisToPatch) == Cardinality(patchedURIs) > 0

\* allPatchesSucceded = patchedURIs.size === urisToPatch.length
allPatchesSucceded(patchedURIs, urisToPatch) == Cardinality(patchedURIs) = Len(urisToPatch)

\* the promise save returns, before it settles
PendingPromise == [state |-> "pending"]

\* the mutant of saveThen: when a patch failed nothing is thrown and the
\* promise stays pending
saveThenSilent(m, diffMap, sourceResults, firstId) ==
  LET patchedURIs == patchedURIsOf(sourceResults)
      updatedModel == updatedModelOf(m, patchedURIs, firstId)
  IN IF allPatchesSucceded(patchedURIs, DiffKeys(diffMap))
       THEN [state |-> "resolved", value |-> updatedModel]
       ELSE PendingPromise

\* the then callback of save: the settled state of the promise save returned
saveThen(m, diffMap, sourceResults, firstId) ==
  LET patchedURIs == patchedURIsOf(sourceResults)
      updatedModel == updatedModelOf(m, patchedURIs, firstId)
  IN IF allPatchesSucceded(patchedURIs, DiffKeys(diffMap))
       THEN [state |-> "resolved", value |-> updatedModel]
       ELSE [state |-> "rejected", value |-> saveError(updatedModel, diffMap, sourceResults)]

\* the mutant of nothingToPatch: save has no early return
alwaysPatch(diffMap) == FALSE

\* does save return without patching
nothingToPatch(diffMap) == Len(DiffKeys(diffMap)) = 0

(***************************************************************************)
(* The methods of Model over JavaScript arrays.  The arrays of a model     *)
(* (one per key, and the graveyard) are mutable objects that a model only  *)
(* refers to: a heap is the sequence of all arrays allocated so far, a     *)
(* reference is an index into it, and a model object holds references.     *)
(* Each method returns the heap it leaves and the model object it returns. *)
(***************************************************************************)
\* the position of a key in Object.keys order
KeyIndex(key) == CHOOSE j \in 1..Len(KeyOrder) : KeyOrder[j] = key

\* the arrays of a model value laid out on a fresh heap, and the model
\* object that refers to them
heapOf(m) ==
  [heap |-> [j \in 1..Len(KeyOrder) + 1 |->
               IF j <= Len(KeyOrder) THEN m.fields[KeyOrder[j]] ELSE m.graveyard],
   object |-> [fields |-> [k \in Keys |-> KeyIndex(k)],
               graveyard |-> Len(KeyOrder) + 1]]

\* the model value a model object stands for on a heap
deref(heap, object) ==
  Model([k \in Keys |-> heap[object.fields[k]]], heap[object.graveyard])

\* the mutant of addOnHeap: the field is pushed onto the receiver's array
addOnHeapPushed(heap, object, key, field) ==
  [heap |-> Append([heap EXCEPT ![object.fields[key]] = Append(@, field)], <<>>),
   object |-> [fields |-> object.fields, graveyard |-> Len(heap) + 1]]

\* Model.add: [...this.fields.get(key), field] is a new array, and the
\* constructor's default graveyard = [] is another one
addOnHeap(heap, object, key, field) ==
  [heap |-> heap \o <<Append(heap[object.fields[key]], field), <<>> >>,
   object |-> [fields |-> [object.fields EXCEPT ![key] = Len(heap) + 1],
               graveyard |-> Len(heap) + 2]]

\* Model.map: fieldsArray.map(fn) is a new array per key; the graveyard
\* array of the receiver is handed to the new model as it is
mapOnHeap(heap, object, fn) ==
  [heap |-> heap \o [j \in 1..Len(KeyOrder) |->
                       [i \in 1..Len(heap[object.fields[KeyOrder[j]]]) |->
                          fn[<<KeyOrder[j], i>>]]],
   object |-> [fields |-> [k \in Keys |-> Len(heap) + KeyIndex(k)],
               graveyard |-> object.graveyard]]

\* Model.filterToGraveyard, for the predicate f => f.id !== id:
\* removedFields is a new array, the only one that is pushed onto;
\* fieldsArray.filter gives a new array per key and
\* [...this.graveyard, ...removedFields] is a new array
filterToGraveyardOnHeap(heap, object, id) ==
  LET m == deref(heap, object)
      removedFields == filterById(Flatten(m.fields), id, TRUE)
      n == Len(KeyOrder)
  IN [heap |-> heap
                 \o <<removedFields>>
                 \o [j \in 1..n |-> filterById(m.fields[KeyOrder[j]], id, FALSE)]
                 \o << m.graveyard \o removedFields >>,
      object |-> [fields |-> [k \in Keys |-> Len(heap) + 1 + KeyIndex(k)],
                  graveyard |-> Len(heap) + n + 2]]

\* Model.remove: the receiver itself when no live field has the id
removeOnHeap(heap, object, id) ==
  IF ~findById(deref(heap, object), id) THEN [heap |-> heap, object |-> object]
  ELSE filterToGraveyardOnHeap(heap, object, id)

\* Model.set
setOnHeap(heap, object, id, newId, value, listed) ==
  LET m == deref(heap, object)
      fn == [p \in Positions(m) |->
               LET field == m.fields[p[1]][p[2]]
               IN IF field.id = id THEN FieldSet(newId, field, value, listed)
                  ELSE field]
  IN mapOnHeap(heap, object, fn)

\* Model.clearGraveyard: the field arrays are shared, [] is a new array
clearGraveyardOnHeap(heap, object) ==
  [heap |-> Append(heap, <<>>),
   object |-> [fields |-> object.fields, graveyard |-> Len(heap) + 1]]

\* the then callback of Model.save: this.map(...).clearGraveyard()
saveOnHeap(heap, object, patchedURIs, firstId) ==
  LET m == deref(heap, object)
      fn == [p \in Positions(m) |->
               LET field == m.fields[p[1]][p[2]]
               IN IF isPatched(patchedURIs, field)
                    THEN fromCurrentState(firstId + Offset(m, p[1], p[2]), field)
                    ELSE field]
      mapped == mapOnHeap(heap, object, fn)
  IN clearGraveyardOnHeap(mapped.heap, mapped.object)

(***************************************************************************)
(* The state machine: a caller builds a model from a graph, applies add /  *)
(* remove / set, calls save, the patch calls settle one by one in any      *)
(* order, and the caller goes on with the model save produced.             *)
(***************************************************************************)
VARIABLES
  sourceConfig,  \* the sourceConfig of the field factory
  model,         \* the model the caller holds
  nextId,        \* the next uuid
  ops,           \* add / remove / set calls so far
  saves,         \* save calls so far
  pc,            \* "idle", "patching" (save awaits its patches) or "settled"
  saved,         \* the model save was called on
  diffMap,       \* the diffMap constant of the running save
  calls,         \* the webClient.patch calls issued by the running save
  unsettled,     \* URIs whose patch call has not settled yet
  sourceResults, \* the result objects of the settled patch calls
  promise,       \* the promise save returned
  store,         \* the web: for each resource URI, the quads it holds
  storeAtSave    \* the web as it was when save was called

vars == <<sourceConfig, model, nextId, ops, saves, pc, saved, diffMap, calls,
          unsettled, sourceResults, promise, store, storeAtSave>>

\* the object of the quads of a key in the graphs: names are literals,
\* phones are named nodes
LoadedObject(key) == IF key = "name" THEN LiteralFromValue("Cool") ELSE namedNode("tel:1")

\* quads of the graph the model factory reads, per key
LoadedQuads(key) ==
  IF key = "name"
    THEN {<<quad(Subject, PredicateOf(key), LoadedObject(key), g)>> : g \in GraphURIs}
    ELSE {<<>>}

\* modelFactory(rdf, fieldCreators)(graph, subjectStr)
modelFactory(quads, cfg) ==
  Model([k \in Keys |->
           [i \in 1..Len(quads[k]) |->
              fromQuad(IF k = KeyOrder[1] THEN i ELSE Len(quads[KeyOrder[1]]) + i,
                       quads[k][i], cfg)]],
        <<>>)

NoModel == Model([k \in Keys |-> <<>>], <<>>)

\* the web with no quad in any resource
EmptyStore == [uri \in GraphURIs |-> {}]

\* the web the model factory reads from: each quad in the resource its graph
\* names
storeOf(quads) ==
  [uri \in GraphURIs |->
     {quadToString(quads[k][i]) : <<k, i>> \in
        {p \in Keys \X (1..1) : p[2] <= Len(quads[p[1]]) /\ quads[p[1]][p[2]].graph = uri}}]

\* webClient.patch(uri, toDel, toIns) when it succeeds: the resource loses
\* the quads of toDel, then gains the quads of toIns
patch(web, uri, toDel, toIns) ==
  [web EXCEPT ![uri] = (@ \ {toDel[i] : i \in 1..Len(toDel)})
                         \cup {toIns[i] : i \in 1..Len(toIns)}]

Init ==
  /\ sourceConfig \in SourceConfigs
  /\ \E quads \in [Keys -> UNION {LoadedQuads(k) : k \in Keys}] :
       /\ \A k \in Keys : quads[k] \in LoadedQuads(k)
       /\ model = modelFactory(quads, sourceConfig)
       /\ nextId = Len(quads["name"]) + Len(quads["phone"]) + 1
       /\ store = storeOf(quads)
  /\ storeAtSave = EmptyStore
  /\ ops = 0
  /\ saves = 0
  /\ pc = "idle"
  /\ saved = NoModel
  /\ diffMap = <<>>
  /\ calls = <<>>
  /\ unsettled = {}
  /\ sourceResults = {}
  /\ promise = PendingPromise

SaveIdle ==
  UNCHANGED <<saved, diffMap, calls, unsettled, sourceResults, promise, store, storeAtSave>>

\* model.add(key, fieldCreator(value, {listed})); when the constructor
\* throws, add is not called and the caller keeps its model
Add(key, value, listed) ==
  /\ pc = "idle"
  /\ ops < MaxOps
  /\ LET field == fieldCreator(nextId, key, value, listed, sourceConfig)
     IN IF field = InsufficientArguments
          THEN UNCHANGED <<model, nextId>>
          ELSE /\ model' = add(model, key, field)
               /\ nextId' = nextId + 1
  /\ ops' = ops + 1
  /\ UNCHANGED <<sourceConfig, saves, pc>>
  /\ SaveIdle

\* model.add(key, fieldCreator.fromQuad(quad))
AddFromQuad(key, object, graph) ==
  /\ pc = "idle"
  /\ ops < MaxOps
  /\ model' = add(model, key,
                  fromQuad(nextId, quad(Subject, PredicateOf(key), object, graph),
                           sourceConfig))
  /\ nextId' = nextId + 1
  /\ ops' = ops + 1
  /\ UNCHANGED <<sourceConfig, saves, pc>>
  /\ SaveIdle

\* model.remove(field), field.id = id
Remove(id) ==
  /\ pc = "idle"
  /\ ops < MaxOps
  /\ model' = remove(model, id)
  /\ ops' = ops + 1
  /\ UNCHANGED <<sourceConfig, nextId, saves, pc>>
  /\ SaveIdle

\* model.set(oldField, {value, listed}), oldField.id = id
Set(id, value, listed) ==
  /\ pc = "idle"
  /\ ops < MaxOps
  /\ model' = ModelSet(model, id, nextId, value, listed)
  /\ nextId' = nextId + 1
  /\ ops' = ops + 1
  /\ UNCHANGED <<sourceConfig, saves, pc>>
  /\ SaveIdle

\* model.save(rdf, web), up to the point where it returns its promise
Save ==
  /\ pc = "idle"
  /\ saves < MaxSaves
  /\ saves' = saves + 1
  /\ saved' = model
  /\ LET d == diff(model)
     IN /\ diffMap' = d
        /\ IF nothingToPatch(d)
             THEN /\ promise' = [state |-> "resolved", value |-> model]
                  /\ pc' = "settled"
                  /\ calls' = <<>>
                  /\ unsettled' = {}
             ELSE /\ promise' = PendingPromise
                  /\ pc' = "patching"
                  /\ calls' = patchCalls(d)
                  /\ unsettled' = {patchCalls(d)[i].uri : i \in 1..Len(patchCalls(d))}
  /\ sourceResults' = {}
  /\ storeAtSave' = store
  /\ UNCHANGED <<sourceConfig, model, nextId, ops, store>>

\* the patch call for uri settles: it succeeds or it fails
PatchSettles(uri, succeeded) ==
  /\ pc = "patching"
  /\ uri \in unsettled
  /\ unsettled' = unsettled \ {uri}
  /\ sourceResults' = sourceResults \cup {sourceResult(uri, succeeded)}
  /\ store' = IF succeeded
                THEN LET call == calls[CHOOSE i \in 1..Len(calls) : calls[i].uri = uri]
                     IN patch(store, uri, call.toDel, call.toIns)
                ELSE store
  /\ UNCHANGED <<sourceConfig, model, nextId, ops, saves, pc, saved, diffMap, calls, promise,
                 storeAtSave>>

\* Promise.all settled: the then callback of save runs
SaveSettles ==
  /\ pc = "patching"
  /\ allSettled(unsettled, sourceResults)
  /\ promise' = saveThen(saved, diffMap, sourceResults, nextId)
  /\ nextId' = nextId + Len(Flatten(saved.fields))
  /\ pc' = "settled"
  /\ UNCHANGED <<sourceConfig, model, ops, saves, saved, diffMap, calls, unsettled,
                 sourceResults, store, storeAtSave>>

\* the caller goes on with the model of the settled promise: the resolved
\* model, or err.model
Continue ==
  /\ pc = "settled"
  /\ model' = IF promise.state = "resolved" THEN promise.value ELSE promise.value.model
  /\ pc' = "idle"
  /\ saved' = NoModel
  /\ diffMap' = <<>>
  /\ calls' = <<>>
  /\ unsettled' = {}
  /\ sourceResults' = {}
  /\ promise' = PendingPromise
  /\ storeAtSave' = EmptyStore
  /\ UNCHANGED <<sourceConfig, nextId, ops, saves, store>>

LiveIds == {Flatten(model.fields)[i].id : i \in 1..Len(Flatten(model.fields))}

\* the id of a field that does not belong to the model
ForeignId == 0

\* the value of the ad hoc fields added to a key
AddValue(key) == IF key = "name" THEN "Cool" ELSE "tel:1"

Next ==
  \/ \E key \in Keys, listed \in {UndefinedFlag, Flag(TRUE), Flag(FALSE)} :
       \E value \in {AddValue(key), Undefined} : Add(key, value, listed)
  \/ \E graph \in GraphURIs : AddFromQuad("phone", LoadedObject("phone"), graph)
  \/ \E id \in LiveIds \cup {ForeignId} : Remove(id)
  \/ \E id \in LiveIds \cup {ForeignId}, value \in Values \cup {Undefined, Null},
        listed \in {UndefinedFlag, NullFlag, Flag(TRUE), Flag(FALSE)} :
       Set(id, value, listed)
  \/ Save
  \/ \E uri \in GraphURIs, succeeded \in BOOLEAN : PatchSettles(uri, succeeded)
  \/ SaveSettles
  \/ Continue

Spec == Init /\ [][Next]_vars

(***************************************************************************)
(* Vocabulary of the properties                                            *)
(***************************************************************************)
Settled == pc = "settled"

Resolved == pc = "settled" /\ promise.state = "resolved"

Rejected == pc = "settled" /\ promise.state = "rejected"

\* the URIs whose patch call succeeded / failed, as the transport settled them
SucceededURIs == {u \in GraphURIs : [URI |-> u, succeeded |-> TRUE] \in sourceResults}

FailedURIs == {u \in GraphURIs : [URI |-> u, succeeded |-> FALSE] \in sourceResults}

\* elements of a sequence
Range(seq) == {seq[i] : i \in 1..Len(seq)}

\* the field is in the state fromQuad built it in
Unmodified(f, cfg) ==
  /\ isDefinedTerm(f.originalObject)
  /\ isDefined(f.originalSource)
  /\ f.value = f.originalObject.value
  /\ f.listed = (IF f.originalSource \in DOMAIN cfg.sourceIndex
                   THEN cfg.sourceIndex[f.originalSource] ELSE FALSE)

AdHoc(f) == ~isDefinedTerm(f.originalObject)

\* the entry of a diff map for a URI (empty lists when the URI is no key)
Entry(d, uri) ==
  IF uri \in KeySet(d) THEN d[CHOOSE i \in 1..Len(d) : d[i].uri = uri]
  ELSE [uri |-> uri, toDel |-> <<>>, toIns |-> <<>>]

(***************************************************************************)
(* C1: with the default graphs indexed listed / unlisted, when every patch *)
(* call of a save succeeded the save resolves with a model whose diff is   *)
(* empty and whose graveyard is empty.                                     *)
(***************************************************************************)
\* C1 as stated: violated by add(ad hoc f), remove(f), save -- the diff is
\* empty, save resolves with the receiver, whose graveyard holds f
C1_AsStated ==
  (Settled /\ sourceConfig = StandardConfig /\ FailedURIs = {})
    => /\ promise.state = "resolved"
       /\ diff(promise.value) = <<>>
       /\ promise.value.graveyard = <<>>

\* C1 amended: the graveyard is empty whenever save issued a patch call; a
\* model whose diff is empty is returned as it is, and its graveyard can
\* only hold removed ad hoc fields
C1_SaveReconciles ==
  (Settled /\ sourceConfig = StandardConfig /\ FailedURIs = {})
    => /\ promise.state = "resolved"
       /\ diff(promise.value) = <<>>
       /\ calls # <<>> => promise.value.graveyard = <<>>
       /\ calls = <<>> => \A f \in Range(promise.value.graveyard) : AdHoc(f)

C1_Witness ==
  /\ Resolved
  /\ sourceConfig = StandardConfig
  /\ Len(calls) >= 2
  /\ saved.graveyard # <<>>
  /\ \E f \in Range(Flatten(saved.fields)) : AdHoc(f)

(***************************************************************************)
(* C2: the model carried by a rejection has promoted to original state     *)
(* exactly the live fields whose current source URI was patched with       *)
(* success; every other live field is the field that was saved.            *)
(***************************************************************************)
C2_PartialPromotion ==
  Rejected =>
    /\ \A k \in Keys : Len(promise.value.model.fields[k]) = Len(saved.fields[k])
    /\ \A p \in Positions(saved) :
         LET old == saved.fields[p[1]][p[2]]
             new == promise.value.model.fields[p[1]][p[2]]
         IN IF getCurrentSource(old) \in SucceededURIs
              THEN /\ originalQuad(new) = toQuad(old)
                   /\ new.id # old.id
              ELSE new = old

C2_Witness ==
  /\ Rejected
  /\ \E p \in Positions(saved) :
       /\ AdHoc(saved.fields[p[1]][p[2]])
       /\ getCurrentSource(saved.fields[p[1]][p[2]]) \in SucceededURIs
       /\ ~AdHoc(promise.value.model.fields[p[1]][p[2]])
  /\ \E p \in Positions(saved) :
       /\ AdHoc(saved.fields[p[1]][p[2]])
       /\ getCurrentSource(saved.fields[p[1]][p[2]]) \in FailedURIs
       /\ originalQuad(promise.value.model.fields[p[1]][p[2]]) = NullQuad

(***************************************************************************)
(* C3: after a rejection every change of a live field that the saved       *)
(* model's diff addressed to a resource whose patch failed appears again,  *)
(* under the same URI, in the diff of the model carried by the rejection.  *)
(***************************************************************************)
\* violated: a loaded field moved to another graph is promoted when the
\* patch of its new graph succeeds, and the failed deletion is forgotten
C3_FailedChangesStillPending ==
  Rejected =>
    \A f \in Range(Flatten(saved.fields)) :
      LET newQuad == toQuad(f)
          origQuad == originalQuad(f)
          changed == origQuad = NullQuad \/ ~quadEquals(newQuad, origQuad)
          after == diff(promise.value.model)
      IN changed =>
           /\ (origQuad # NullQuad /\ origQuad.graph \in FailedURIs)
                => quadToString(origQuad) \in Range(Entry(after, origQuad.graph).toDel)
           /\ newQuad.graph \in FailedURIs
                => quadToString(newQuad) \in Range(Entry(after, newQuad.graph).toIns)

(***************************************************************************)
(* C4: the error of a rejection carries model, diffMap (the diff of the    *)
(* saved model) and failedURIs (exactly the URIs whose patch failed).      *)
(***************************************************************************)
\* violated: the Error is given the model only
C4_ErrorCarriesDiffAndFailedURIs ==
  Rejected =>
    /\ "model" \in DOMAIN promise.value
    /\ "diffMap" \in DOMAIN promise.value
    /\ promise.value.diffMap = diff(saved)
    /\ "failedURIs" \in DOMAIN promise.value
    /\ promise.value.failedURIs = FailedURIs

(***************************************************************************)
(* C5: with a non-empty diff, save resolves exactly when every issued      *)
(* patch call succeeded and rejects as soon as one failed, all of them     *)
(* failing included.                                                       *)
(***************************************************************************)
C5_ResolvesIffAllSucceeded ==
  (Settled /\ diff(saved) # <<>>) =>
    /\ promise.state \in {"resolved", "rejected"}
    /\ promise.state = "resolved" <=> FailedURIs = {}
    /\ promise.state = "rejected" <=> FailedURIs # {}

C5_Witness ==
  /\ Rejected
  /\ SucceededURIs = {}
  /\ Cardinality(FailedURIs) >= 2

(***************************************************************************)
(* C6: when the diff of the model is empty, save issues no patch call and  *)
(* resolves with the very same model.                                      *)
(***************************************************************************)
C6_EmptyDiffSave ==
  (pc # "idle" /\ diff(saved) = <<>>) =>
    /\ pc = "settled"
    /\ calls = <<>>
    /\ unsettled = {}
    /\ promise.state = "resolved"
    /\ promise.value = saved

C6_Witness ==
  /\ Resolved
  /\ diff(saved) = <<>>
  /\ saved.graveyard # <<>>

(***************************************************************************)
(* C7: for a non-empty diff save issues exactly one patch call per URI key *)
(* of the diff map, with that key's toDel and toIns, and all of them are   *)
(* issued whatever the outcome of the others.                              *)
(***************************************************************************)
C7_OnePatchPerKey ==
  pc # "idle" =>
    LET d == diff(saved)
    IN /\ Len(calls) = Len(d)
       /\ \A u \in KeySet(d) :
            /\ Cardinality({i \in 1..Len(calls) : calls[i].uri = u}) = 1
            /\ \A i \in 1..Len(calls) :
                 calls[i].uri = u => /\ calls[i].toDel = Entry(d, u).toDel
                                     /\ calls[i].toIns = Entry(d, u).toIns
       /\ unsettled \cup SucceededURIs \cup FailedURIs = KeySet(d)

C7_Witness ==
  /\ pc = "patching"
  /\ Len(calls) >= 2
  /\ FailedURIs # {}
  /\ unsettled # {}
  /\ \E i \in 1..Len(calls) : calls[i].toDel # <<>>

(***************************************************************************)
(* C8: save never settles while a patch call it issued is unsettled, even  *)
(* when another patch call has already failed.                             *)
(***************************************************************************)
C8_FanInJoin == unsettled # {} => (pc = "patching" /\ promise.state = "pending")

C8_Witness ==
  /\ pc = "patching"
  /\ unsettled # {}
  /\ FailedURIs # {}

(***************************************************************************)
(* C9: a model whose live fields were all built from quads and never       *)
(* modified has an empty diff, whatever graph each quad came from.         *)
(***************************************************************************)
C9_UnmodifiedModelHasNoDiff ==
  (/\ model.graveyard = <<>>
   /\ \A f \in Range(Flatten(model.fields)) : Unmodified(f, sourceConfig))
    => diff(model) = <<>>

C9_Witness ==
  /\ ops >= 1
  /\ model.graveyard = <<>>
  /\ \A f \in Range(Flatten(model.fields)) : Unmodified(f, sourceConfig)
  /\ \E f \in Range(Flatten(model.fields)) : f.originalSource = UnknownURI
  /\ \E f \in Range(Flatten(model.fields)) : f.originalSource = OtherUnlistedURI

(***************************************************************************)
(* C10: one ad hoc field with listed = L added to a freshly built model    *)
(* gives a diff with exactly one entry, keyed by defaultSources.listed     *)
(* when L and by defaultSources.unlisted otherwise, whose toIns is the     *)
(* field's current quad serialized and whose toDel is empty.               *)
(***************************************************************************)
C10_InsertOnlyDiff ==
  \A f \in Range(Flatten(model.fields)) :
    (/\ AdHoc(f)
     /\ model.graveyard = <<>>
     /\ \A g \in Range(Flatten(model.fields)) \ {f} : Unmodified(g, sourceConfig))
      => diff(model) =
           << [uri |-> IF f.listed THEN sourceConfig.defaultSources.listed
                       ELSE sourceConfig.defaultSources.unlisted,
               toDel |-> <<>>,
               toIns |-> << <<Subject, f.predicate,
                              IF isUri(f.value) THEN "NamedNode" ELSE "Literal",
                              f.value>> >>] >>

C10_Witness ==
  /\ ops = 1
  /\ Len(model.fields["phone"]) = 1
  /\ AdHoc(model.fields["phone"][1])
  /\ model.fields["phone"][1].listed
  /\ Unmodified(model.fields["name"][1], sourceConfig)
  /\ model.fields["name"][1].originalSource = OtherUnlistedURI

\* the classification of a graph URI: sourceIndex[uri], false when the URI
\* is absent
Classification(cfg, uri) ==
  IF uri \in DOMAIN cfg.sourceIndex THEN cfg.sourceIndex[uri] ELSE FALSE

\* the default graph for a listed flag
DefaultSource(cfg, listed) ==
  IF listed THEN cfg.defaultSources.listed ELSE cfg.defaultSources.unlisted

\* the live fields of a model
Live(m) == Range(Flatten(m.fields))

(***************************************************************************)
(* C11: with every live field as loaded, one removed field that was built  *)
(* from a quad gives a diff with exactly one entry, keyed by the graph of  *)
(* that quad, whose toDel is the serialized original quad alone and whose  *)
(* toIns is empty, whatever value and listed flag the field had when it    *)
(* was removed.                                                            *)
(***************************************************************************)
C11_RemoveLoadedDiff ==
  (/\ Len(model.graveyard) = 1
   /\ ~AdHoc(model.graveyard[1])
   /\ \A f \in Live(model) : Unmodified(f, sourceConfig))
    => LET removed == model.graveyard[1]
       IN diff(model) =
            << [uri |-> removed.originalSource,
                toDel |-> << <<Subject, removed.predicate,
                               removed.originalObject.termType,
                               removed.originalObject.value>> >>,
                toIns |-> <<>>] >>

C11_Witness ==
  /\ Len(model.graveyard) = 1
  /\ model.graveyard[1].originalSource = OtherUnlistedURI
  /\ model.graveyard[1].value # model.graveyard[1].originalObject.value
  /\ model.graveyard[1].listed
  /\ \A f \in Live(model) : Unmodified(f, sourceConfig)

\* the serialized original / current quad of a field built from a quad
OriginalText(f) ==
  <<Subject, f.predicate, f.originalObject.termType, f.originalObject.value>>

CurrentText(f) == <<Subject, f.predicate, f.originalObject.termType, f.value>>

\* f is the one modified field of the model: it was built from a quad, its
\* value or listed flag differs from the loaded one, every other live field
\* is as loaded and nothing was removed
OnlyModified(f) ==
  /\ ~AdHoc(f)
  /\ ~Unmodified(f, sourceConfig)
  /\ model.graveyard = <<>>
  /\ \A g \in Live(model) \ {f} : Unmodified(g, sourceConfig)

(***************************************************************************)
(* C12: a loaded field set to another value and/or listed flag gives a     *)
(* diff that deletes the original quad under the original graph and        *)
(* inserts the new quad under the newly resolved graph: one entry with     *)
(* both when the listed flag is the loaded one, two entries (deletion      *)
(* under the old graph, insertion under the default graph of the new       *)
(* flag) when it changed.                                                  *)
(***************************************************************************)
\* C12 as stated: violated when the default graph of the new flag is the
\* graph the field came from (a default graph that sourceIndex does not
\* classify as its own kind): the new quad stays in the original graph
C12_AsStated ==
  \A f \in Live(model) :
    OnlyModified(f) =>
      LET G == f.originalSource
      IN IF f.listed = Classification(sourceConfig, G)
           THEN diff(model) =
                  << [uri |-> G, toDel |-> <<OriginalText(f)>>,
                      toIns |-> <<CurrentText(f)>>] >>
           ELSE /\ Len(diff(model)) = 2
                /\ Range(diff(model)) =
                     {[uri |-> G, toDel |-> <<OriginalText(f)>>, toIns |-> <<>>],
                      [uri |-> DefaultSource(sourceConfig, f.listed),
                       toDel |-> <<>>, toIns |-> <<CurrentText(f)>>]}

\* C12 amended: two entries when the listed flag changed and the default
\* graph of the new flag is another graph than the original one; when the
\* new quad resolves to the original graph, one entry with both lists if
\* the value changed and no entry at all if it did not
C12_UpdateDiff ==
  \A f \in Live(model) :
    OnlyModified(f) =>
      LET G == f.originalSource
          newSource == IF f.listed = Classification(sourceConfig, G) THEN G
                       ELSE DefaultSource(sourceConfig, f.listed)
      IN IF newSource = G
           THEN diff(model) =
                  IF f.value = f.originalObject.value THEN <<>>
                  ELSE << [uri |-> G, toDel |-> <<OriginalText(f)>>,
                           toIns |-> <<CurrentText(f)>>] >>
           ELSE diff(model) =
                  << [uri |-> G, toDel |-> <<OriginalText(f)>>, toIns |-> <<>>],
                     [uri |-> newSource, toDel |-> <<>>,
                      toIns |-> <<CurrentText(f)>>] >>

C12_Witness ==
  \E f \in Live(model) :
    /\ OnlyModified(f)
    /\ f.originalSource = OtherUnlistedURI
    /\ f.listed
    /\ f.value # f.originalObject.value
    /\ Len(diff(model)) = 2
    /\ Len(Flatten(model.fields)) = 2

\* the fields a model holds: live and removed
Held(m) == Live(m) \cup Range(m.graveyard)

\* the options a caller passes to set
SetValues == Values \cup {Undefined, Null}

SetFlags == {UndefinedFlag, NullFlag, Flag(TRUE), Flag(FALSE)}

\* x, loaded from G, resolves to G when its listed flag is the
\* classification of G and to the default graph of its flag otherwise
Sticky(x, G) ==
  /\ x.originalSource = G
  /\ getCurrentSource(x) =
       IF x.listed = Classification(x.sourceConfig, G) THEN G
       ELSE DefaultSource(x.sourceConfig, x.listed)

(***************************************************************************)
(* C13: a field loaded from a graph G resolves, after any sequence of      *)
(* set / toggleListed calls, to G whenever its listed flag is the          *)
(* classification of G and to the default graph of its flag otherwise;     *)
(* toggling twice brings it back to the graph it resolved to.              *)
(***************************************************************************)
C13_SourceStickiness ==
  \A f \in Held(model) :
    ~AdHoc(f) =>
      LET G == f.originalSource
          once == toggleListed(nextId, f)
          twice == toggleListed(nextId + 1, once)
      IN /\ Sticky(f, G)
         /\ Sticky(once, G)
         /\ once.listed = ~f.listed
         /\ Sticky(twice, G)
         /\ twice.listed = f.listed
         /\ getCurrentSource(twice) = getCurrentSource(f)
         /\ \A value \in SetValues, listed \in SetFlags :
              Sticky(FieldSet(nextId, f, value, listed), G)

C13_Witness ==
  \E f \in Live(model) :
    /\ ~AdHoc(f)
    /\ f.originalSource = OtherUnlistedURI
    /\ f.listed
    /\ getCurrentSource(f) = ListedURI
    /\ getCurrentSource(toggleListed(nextId, f)) = OtherUnlistedURI

\* the field fromQuad builds from the quad f was built from
AsLoaded(f) == fromQuad(f.id, originalQuad(f), f.sourceConfig)

(***************************************************************************)
(* C14: a field built from a quad whose graph is absent from sourceIndex   *)
(* is unlisted, resolves to that graph and, while not modified, has the    *)
(* quad it was built from as its toQuad.                                   *)
(***************************************************************************)
C14_UnfamiliarGraphUnlisted ==
  \A f \in Held(model) :
    (~AdHoc(f) /\ f.originalSource \notin DOMAIN f.sourceConfig.sourceIndex) =>
      /\ ~AsLoaded(f).listed
      /\ getCurrentSource(AsLoaded(f)) = f.originalSource
      /\ toQuad(AsLoaded(f)) = originalQuad(f)
      /\ f = AsLoaded(f) =>
           (~f.listed /\ getCurrentSource(f) = f.originalSource
            /\ quadEquals(toQuad(f), originalQuad(f)))

C14_Witness ==
  /\ \E f \in Live(model) :
       /\ f = AsLoaded(f)
       /\ f.originalSource = UnknownURI
       /\ f.predicate = PredicateOf("phone")
  /\ \E f \in Live(model) :
       /\ f = AsLoaded(f)
       /\ f.originalSource = ListedURI
       /\ ListedURI \notin DOMAIN f.sourceConfig.sourceIndex

(***************************************************************************)
(* C15: remove of a field whose id matches no live field returns a model   *)
(* with the live fields and the graveyard of the receiver: nothing is      *)
(* buried and the diff is the same.                                        *)
(***************************************************************************)
C15_RemoveNonMember ==
  \A id \in 0..nextId :
    (\A f \in Live(model) : f.id # id) =>
      /\ remove(model, id).fields = model.fields
      /\ remove(model, id).graveyard = model.graveyard
      /\ diff(remove(model, id)) = diff(model)

\* two remove calls were made and one field was buried: one of the calls
\* was for a field that was not live
C15_Witness ==
  /\ ops = 2
  /\ nextId = 2
  /\ saves = 0
  /\ Len(model.graveyard) = 1
  /\ Live(model) = {}

(***************************************************************************)
(* C16: Field.set replaces value and listed exactly where the option is    *)
(* present in the call: an absent option keeps the current value / listed  *)
(* flag, a present one replaces it, null and the empty string included.    *)
(***************************************************************************)
\* violated: an option given as null keeps the field's current value /
\* listed flag, exactly as an absent option does
C16_SetOverridesWherePresent ==
  \A f \in Held(model) :
    \A value \in SetValues \cup {""}, listed \in SetFlags :
      LET result == FieldSet(nextId, f, value, listed)
      IN /\ result.value = (IF value = Undefined THEN f.value ELSE value)
         /\ listed = UndefinedFlag => result.listed = f.listed
         /\ listed # UndefinedFlag => Flag(result.listed) = listed

\* new differs from old in value, listed and id at most
SameOriginal(old, new) ==
  /\ originalQuad(new) = originalQuad(old)
  /\ AdHoc(old) => originalQuad(new) = NullQuad
  /\ new.originalObject = old.originalObject
  /\ new.originalSource = old.originalSource
  /\ new.predicate = old.predicate
  /\ new.sourceConfig = old.sourceConfig

(***************************************************************************)
(* C17: set and toggleListed never change the original state of a field:   *)
(* the original quad (null for an ad hoc field), the predicate and the     *)
(* sourceConfig of the result are those of the field they were called on,  *)
(* in every set step of a model and for every further set / toggleListed.  *)
(***************************************************************************)
C17_SetKeepsOriginal ==
  [][/\ (/\ pc = "idle"
         /\ pc' = "idle"
         /\ \A k \in Keys : Len(model'.fields[k]) = Len(model.fields[k]))
        => \A p \in Positions(model) :
             SameOriginal(model.fields[p[1]][p[2]], model'.fields[p[1]][p[2]])
     /\ \A f \in Held(model) :
          /\ \A value \in SetValues, listed \in SetFlags :
               SameOriginal(f, FieldSet(nextId, f, value, listed))
          /\ SameOriginal(f, toggleListed(nextId, f))
          /\ SameOriginal(f, toggleListed(nextId + 1, toggleListed(nextId, f)))]_vars

\* a loaded field after two set calls that changed its value and its
\* listed flag
C17_Witness ==
  /\ saves = 0
  /\ ops = 2
  /\ \E f \in Live(model) :
       /\ f.id = 3
       /\ f.originalSource = OtherUnlistedURI
       /\ f.originalObject = LoadedObject("name")
       /\ f.value # f.originalObject.value
       /\ f.listed

\* the call left every array that existed before it as it was, so the
\* receiver still stands for the model value m, with the same diff
ReceiverKept(m, result) ==
  LET before == heapOf(m)
  IN /\ Len(result.heap) >= Len(before.heap)
     /\ \A ref \in 1..Len(before.heap) : result.heap[ref] = before.heap[ref]
     /\ deref(result.heap, before.object).fields = m.fields
     /\ deref(result.heap, before.object).graveyard = m.graveyard
     /\ diff(deref(result.heap, before.object)) = diff(m)

\* the ad hoc field a caller adds to a key
FieldToAdd(key) == fieldCreator(nextId, key, AddValue(key), UndefinedFlag, sourceConfig)

(***************************************************************************)
(* C18: add, remove, set, map, filterToGraveyard and save return a new     *)
(* model and leave the live fields (per key, in order) and the graveyard   *)
(* of the receiver as they were, so that the diff of the receiver is the   *)
(* same before and after the call.                                         *)
(***************************************************************************)
C18_ModelsImmutable ==
  LET h == heapOf(model).heap
      o == heapOf(model).object
  IN /\ \A key \in Keys :
          LET r == addOnHeap(h, o, key, FieldToAdd(key))
          IN /\ ReceiverKept(model, r)
             /\ deref(r.heap, r.object) = add(model, key, FieldToAdd(key))
     /\ \A id \in LiveIds \cup {ForeignId} :
          /\ LET r == removeOnHeap(h, o, id)
             IN /\ ReceiverKept(model, r)
                /\ deref(r.heap, r.object) = remove(model, id)
          /\ LET r == filterToGraveyardOnHeap(h, o, id)
             IN /\ ReceiverKept(model, r)
                /\ deref(r.heap, r.object) = filterToGraveyard(model, id)
          /\ \A value \in {Undefined, "tel:1"}, listed \in {UndefinedFlag, Flag(TRUE)} :
               LET r == setOnHeap(h, o, id, nextId, value, listed)
               IN /\ ReceiverKept(model, r)
                  /\ deref(r.heap, r.object) = ModelSet(model, id, nextId, value, listed)
     /\ \A patchedURIs \in SUBSET {ListedURI, UnlistedURI} :
          LET r == saveOnHeap(h, o, patchedURIs, nextId)
          IN /\ ReceiverKept(model, r)
             /\ deref(r.heap, r.object) = updatedModelOf(model, patchedURIs, nextId)
     /\ pc # "idle" =>
          ReceiverKept(saved, saveOnHeap(heapOf(saved).heap, heapOf(saved).object,
                                         SucceededURIs, nextId))

\* a save of a model with live fields and a removed field has settled
C18_Witness ==
  /\ Rejected
  /\ saved.graveyard # <<>>
  /\ Live(saved) # {}
  /\ promise.value.model # saved

(***************************************************************************)
(* C19: add(key, field) returns a model whose sequence for key is the      *)
(* sequence of the receiver with field appended at the end, a field equal  *)
(* to one that is there already included, and whose sequences for the      *)
(* other keys are those of the receiver.                                   *)
(***************************************************************************)
C19_AddAppends ==
  [][/\ \A key \in Keys :
          Len(model'.fields[key]) > Len(model.fields[key]) =>
            /\ Len(model'.fields[key]) = Len(model.fields[key]) + 1
            /\ SubSeq(model'.fields[key], 1, Len(model.fields[key])) = model.fields[key]
            /\ model'.fields[key][Len(model'.fields[key])].id = nextId
            /\ \A other \in Keys \ {key} : model'.fields[other] = model.fields[other]
     /\ (pc = "idle" /\ ops < MaxOps) =>
          \A key \in Keys :
            \A field \in {FieldToAdd(key)}
                           \cup {[f EXCEPT !.id = nextId] : f \in Range(model.fields[key])} :
              /\ add(model, key, field).fields[key] = Append(model.fields[key], field)
              /\ \A other \in Keys \ {key} :
                   add(model, key, field).fields[other] = model.fields[other]]_vars

\* the same ad hoc field was added twice to a key: both are there
C19_Witness ==
  /\ Len(model.fields["phone"]) = 2
  /\ AdHoc(model.fields["phone"][1])
  /\ [model.fields["phone"][2] EXCEPT !.id = 0] = [model.fields["phone"][1] EXCEPT !.id = 0]
  /\ model.fields["phone"][1].id < model.fields["phone"][2].id

(***************************************************************************)
(* C20: Model.set(oldField, args) replaces the live field whose id is      *)
(* oldField.id, at its position of its key, by Field.set of that field,    *)
(* and leaves every other live field, the order and number of fields of    *)
(* every key and the graveyard as they were; with no live field of that    *)
(* id the live fields and the graveyard are those of the receiver.         *)
(***************************************************************************)
C20_SetFrame ==
  \A id \in LiveIds \cup {ForeignId} :
    \A value \in SetValues, listed \in SetFlags :
      LET result == ModelSet(model, id, nextId, value, listed)
      IN /\ result.graveyard = model.graveyard
         /\ \A k \in Keys : Len(result.fields[k]) = Len(model.fields[k])
         /\ \A p \in Positions(model) :
              LET old == model.fields[p[1]][p[2]]
                  new == result.fields[p[1]][p[2]]
              IN IF old.id = id THEN new = FieldSet(nextId, old, value, listed)
                 ELSE new = old
         /\ id \notin LiveIds => (result.fields = model.fields
                                  /\ result.graveyard = model.graveyard)

\* the second field of a key was replaced by set, at its position, and the
\* first one is as loaded
C20_Witness ==
  /\ saves = 0
  /\ model.graveyard = <<>>
  /\ Len(model.fields["name"]) = 2
  /\ model.fields["name"][1].id = 1
  /\ Unmodified(model.fields["name"][1], sourceConfig)
  /\ AdHoc(model.fields["name"][2])
  /\ model.fields["name"][2].id = 3
  /\ model.fields["name"][2].value = "tel:1"
  /\ model.fields["name"][2].listed

\* a sequence without its element at index i
WithoutIndex(seq, i) == SubSeq(seq, 1, i - 1) \o SubSeq(seq, i + 1, Len(seq))

(***************************************************************************)
(* C21: remove of a live field moves exactly that field to the graveyard:  *)
(* one live field less, the other live fields at their keys in their       *)
(* order, and the graveyard of the receiver with that field appended.      *)
(***************************************************************************)
C21_RemoveMovesToGraveyard ==
  \A p \in Positions(model) :
    LET field == model.fields[p[1]][p[2]]
        result == remove(model, field.id)
    IN /\ Len(Flatten(result.fields)) = Len(Flatten(model.fields)) - 1
       /\ result.fields[p[1]] = WithoutIndex(model.fields[p[1]], p[2])
       /\ \A k \in Keys \ {p[1]} : result.fields[k] = model.fields[k]
       /\ result.graveyard = Append(model.graveyard, field)
       /\ field \notin Live(result)

\* the first of two fields of a key was removed
C21_Witness ==
  /\ saves = 0
  /\ ops = 2
  /\ Len(model.fields["name"]) = 1
  /\ model.fields["name"][1].id = 2
  /\ Len(model.graveyard) = 1
  /\ model.graveyard[1].id = 1
  /\ ~AdHoc(model.graveyard[1])

\* g tracks the current state of f as its original state
Promoted(f, g) ==
  /\ originalQuad(g) = toQuad(f)
  /\ g.originalObject = toQuad(f).object
  /\ g.originalSource = toQuad(f).graph
  /\ g.value = f.value
  /\ g.predicate = f.predicate
  /\ ~quadEquals(toQuad(f), originalQuad(f)) => originalQuad(g) # originalQuad(f)

(***************************************************************************)
(* C22: fromCurrentState promotes current to original: the original quad   *)
(* of the result is the current quad of the field, in object and in graph, *)
(* and nothing of the field's previous original state is kept.             *)
(***************************************************************************)
C22_FromCurrentStatePromotes ==
  \A f \in Held(model) :
    /\ Promoted(f, fromCurrentState(nextId, f))
    /\ \A value \in SetValues, listed \in SetFlags :
         Promoted(FieldSet(nextId, f, value, listed),
                  fromCurrentState(nextId + 1, FieldSet(nextId, f, value, listed)))

\* a save promoted a loaded field whose value and graph had been changed
C22_Witness ==
  /\ Settled
  /\ promise.state = "resolved"
  /\ \E p \in Positions(saved) :
       LET old == saved.fields[p[1]][p[2]]
           new == promise.value.fields[p[1]][p[2]]
       IN /\ ~AdHoc(old)
          /\ old.originalSource = OtherUnlistedURI
          /\ old.value # old.originalObject.value
          /\ old.listed
          /\ new.originalSource = ListedURI
          /\ new.originalObject.value = old.value
          /\ new.id # old.id

\* the model a settled save produced: the resolved model, or err.model
Produced == IF promise.state = "resolved" THEN promise.value ELSE promise.value.model

(***************************************************************************)
(* C23: whenever save issued patch calls, the model it produces, resolved  *)
(* or carried by the rejection, has an empty graveyard, whether or not     *)
(* the patches with the deletions of the graveyard succeeded.              *)
(***************************************************************************)
C23_GraveyardCleared ==
  (Settled /\ calls # <<>>) => Produced.graveyard = <<>>

\* the patch with the deletion of a removed field failed
C23_Witness ==
  /\ Rejected
  /\ \E f \in Range(saved.graveyard) :
       /\ ~AdHoc(f)
       /\ f.originalSource \in FailedURIs
  /\ SucceededURIs # {}
  /\ Produced.graveyard = <<>>

(***************************************************************************)
(* C24: creating a field fails with an error when the predicate is absent  *)
(* or when neither a value nor an original object is given, and succeeds   *)
(* otherwise; an ad hoc field created without a listed option is           *)
(* unlisted.                                                               *)
(***************************************************************************)
C24_CreateFieldArguments ==
  /\ \A predicate \in {Undefined, PredicateOf("name")},
        value \in {Undefined, Null, "", "Cool"},
        originalObject \in {UndefinedTerm, LoadedObject("name")},
        listed \in {UndefinedFlag, Flag(TRUE), Flag(FALSE)} :
       LET field == createField(nextId, predicate, value, listed, originalObject,
                                Undefined, sourceConfig)
       IN /\ field = InsufficientArguments
               <=> \/ predicate = Undefined
                   \/ (value = Undefined /\ originalObject = UndefinedTerm)
          /\ field # InsufficientArguments =>
               /\ field.predicate = predicate
               /\ field.listed = (IF listed = UndefinedFlag THEN FALSE ELSE listed[1])
  /\ \A key \in Keys, value \in {Undefined, Null, "", "Cool", "tel:1"},
        listed \in {UndefinedFlag, Flag(TRUE), Flag(FALSE)} :
       LET field == fieldCreator(nextId, key, value, listed, sourceConfig)
       IN /\ field = InsufficientArguments <=> value = Undefined
          /\ field # InsufficientArguments =>
               /\ AdHoc(field)
               /\ field.value = value
               /\ field.listed = (IF listed = UndefinedFlag THEN FALSE ELSE listed[1])
  /\ \A f \in Held(model) : f # InsufficientArguments /\ f.listed \in BOOLEAN

\* two calls drew one id and added one unlisted ad hoc field
C24_Witness ==
  /\ saves = 0
  /\ ops = 2
  /\ nextId = 3
  /\ model.graveyard = <<>>
  /\ Len(model.fields["name"]) = 1
  /\ Len(model.fields["phone"]) = 1
  /\ AdHoc(model.fields["phone"][1])
  /\ ~model.fields["phone"][1].listed

\* the graph of a quad built without one: undefined, or the default graph,
\* whose URI is the empty string
NoGraph == {Undefined, ""}

(***************************************************************************)
(* C25: fromQuad sets the listed flag to the sourceIndex classification    *)
(* of the graph URI of the quad, and to false when the quad has no graph   *)
(* or when its graph URI is absent from sourceIndex; the flag is always a  *)
(* boolean.                                                                *)
(***************************************************************************)
C25_FromQuadListed ==
  /\ \A key \in Keys, graph \in GraphURIs \cup NoGraph :
       LET field == fromQuad(nextId,
                             quad(Subject, PredicateOf(key), LoadedObject(key), graph),
                             sourceConfig)
       IN /\ field # InsufficientArguments
          /\ field.listed \in BOOLEAN
          /\ field.listed = IF graph \in DOMAIN sourceConfig.sourceIndex
                              THEN sourceConfig.sourceIndex[graph] ELSE FALSE
          /\ field.value = LoadedObject(key).value
  /\ \A f \in Held(model) :
       (~AdHoc(f) /\ f = AsLoaded(f)) =>
         f.listed = (/\ f.originalSource \in DOMAIN sourceConfig.sourceIndex
                     /\ sourceConfig.sourceIndex[f.originalSource])

\* a field built from a quad of the listed graph and one built from a quad
\* of a graph that sourceIndex does not know
C25_Witness ==
  /\ Len(model.fields["name"]) = 1
  /\ model.fields["name"][1] = AsLoaded(model.fields["name"][1])
  /\ model.fields["name"][1].originalSource = ListedURI
  /\ model.fields["name"][1].listed
  /\ Len(model.fields["phone"]) = 1
  /\ model.fields["phone"][1] = AsLoaded(model.fields["phone"][1])
  /\ model.fields["phone"][1].originalSource = UnknownURI
  /\ ~model.fields["phone"][1].listed

\* the number of places of a sequence that hold x
Count(seq, x) == Cardinality({i \in 1..Len(seq) : seq[i] = x})

\* the reference reading of a field: the graph it resolves to, the object it
\* holds now, and whether that differs from the quad it was built from
RefGraph(f) ==
  IF ~AdHoc(f) /\ f.listed = Classification(f.sourceConfig, f.originalSource)
    THEN f.originalSource
    ELSE DefaultSource(f.sourceConfig, f.listed)

RefObject(f) ==
  [termType |-> IF ~AdHoc(f) THEN f.originalObject.termType
                ELSE IF isUri(f.value) THEN "NamedNode" ELSE "Literal",
   value |-> f.value]

RefText(f, object) == <<Subject, f.predicate, object.termType, object.value>>

RefDiffers(f) == RefObject(f) # f.originalObject \/ RefGraph(f) # f.originalSource

\* the deletions and insertions of text s the reference algorithm records
\* under uri for model m
RefDeletions(m, uri, s) ==
  LET live == Flatten(m.fields)
  IN Cardinality({i \in 1..Len(live) :
                    /\ ~AdHoc(live[i]) /\ RefDiffers(live[i])
                    /\ live[i].originalSource = uri
                    /\ RefText(live[i], live[i].originalObject) = s})
     + Cardinality({i \in 1..Len(m.graveyard) :
                    /\ ~AdHoc(m.graveyard[i])
                    /\ m.graveyard[i].originalSource = uri
                    /\ RefText(m.graveyard[i], m.graveyard[i].originalObject) = s})

RefInsertions(m, uri, s) ==
  LET live == Flatten(m.fields)
  IN Cardinality({i \in 1..Len(live) :
                    /\ AdHoc(live[i]) \/ RefDiffers(live[i])
                    /\ RefGraph(live[i]) = uri
                    /\ RefText(live[i], RefObject(live[i])) = s})

\* every text a diff of m can hold
RefTexts(m) ==
  {RefText(f, RefObject(f)) : f \in Held(m)}
    \cup {RefText(f, f.originalObject) : f \in Held(m)}
    \cup UNION {Range(diff(m)[i].toDel) \cup Range(diff(m)[i].toIns) : i \in 1..Len(diff(m))}

EqualsReference(m) ==
  LET d == diff(m)
      uris == GraphURIs \cup KeySet(d)
  IN /\ \A i, j \in 1..Len(d) : d[i].uri = d[j].uri => i = j
     /\ \A uri \in uris, s \in RefTexts(m) :
          /\ Count(Entry(d, uri).toDel, s) = RefDeletions(m, uri, s)
          /\ Count(Entry(d, uri).toIns, s) = RefInsertions(m, uri, s)
     /\ KeySet(d) = {uri \in uris : \E s \in RefTexts(m) :
                       RefDeletions(m, uri, s) + RefInsertions(m, uri, s) > 0}

(***************************************************************************)
(* C26: diff() equals the reference algorithm: a live field whose current  *)
(* quad differs from its original gives one deletion of the original under *)
(* the original graph and one insertion of the current quad under the      *)
(* current graph; a live field without an original gives one insertion; a  *)
(* live field equal to its original gives nothing; a graveyard field with  *)
(* an original gives one deletion under its original graph and never an    *)
(* insertion; a graveyard field without an original gives nothing; the     *)
(* diff holds nothing else.                                                *)
(***************************************************************************)
C26_DiffEqualsReference ==
  /\ EqualsReference(model)
  /\ pc # "idle" => EqualsReference(saved)
  /\ Settled => EqualsReference(Produced)

\* a loaded field moved to another graph next to an ad hoc field: a deletion
\* and insertions under two graphs
C26_Witness ==
  /\ pc = "idle"
  /\ \E f \in Live(model) : ~AdHoc(f) /\ RefDiffers(f) /\ RefGraph(f) # f.originalSource
  /\ \E f \in Live(model) : AdHoc(f)
  /\ Len(diff(model)) >= 2
  /\ \E i \in 1..Len(diff(model)) : diff(model)[i].toDel # <<>>
\* every field of m that was built from a quad finds that quad in the web,
\* in the resource of its graph: m is a view of the web
BuiltFrom(m, web) ==
  \A f \in Held(m) :
    ~AdHoc(f) => /\ f.originalSource \in GraphURIs
                 /\ quadToString(originalQuad(f)) \in web[f.originalSource]

\* the web that holds exactly the current quads of the live fields of m,
\* each in the resource the field resolves to
CurrentQuadsOf(m) ==
  [uri \in GraphURIs |->
     {quadToString(toQuad(f)) : f \in {g \in Live(m) : toQuad(g).graph = uri}}]

(***************************************************************************)
(* C27: from a web and a model built from it, after add (of ad hoc         *)
(* fields), remove and set and then a save whose patches all succeed, the  *)
(* web holds exactly the current quads of the live fields of the model,    *)
(* each in the resource its field resolves to: no quad of a removed field  *)
(* is left behind and no quad of a live field is missing.                  *)
(***************************************************************************)
\* violated: remove(loaded field), add(ad hoc field), save -- add builds
\* its model without the graveyard, the diff has no deletion and the quad
\* of the removed field stays in the web
C27_SaveBringsWebToModel ==
  (Resolved /\ saves = 1 /\ calls # <<>> /\ BuiltFrom(saved, storeAtSave))
    => store = CurrentQuadsOf(saved)

\* the web after every one of the patch calls succeeded
RECURSIVE patchAll(_, _)
patchAll(web, patches) ==
  IF patches = <<>> THEN web
  ELSE patchAll(patch(web, Head(patches).uri, Head(patches).toDel, Head(patches).toIns),
                Tail(patches))

(***************************************************************************)
(* C28: after save rejected because some patches failed, a save of the     *)
(* model carried by the rejection whose patches all succeed brings the web *)
(* to the state a fully successful first save would have produced: every   *)
(* deletion and insertion of the first diff has then been applied.         *)
(***************************************************************************)
\* violated: remove(loaded field), save with the patch failing -- save
\* clears the graveyard whatever the patches did, the model carried by the
\* rejection has an empty diff and the quad stays in the web
C28_RetryRecovers ==
  (Rejected /\ saves = 1 /\ BuiltFrom(saved, storeAtSave))
    => patchAll(store, patchCalls(diff(promise.value.model)))
         = patchAll(storeAtSave, calls)

(***************************************************************************)
(* C29: after save rejected, the diff of the model carried by the          *)
(* rejection addresses only resources whose patch failed: it holds no      *)
(* deletion and no insertion under a URI whose patch succeeded.            *)
(***************************************************************************)
\* violated: a loaded field moved to another graph whose patch failed is
\* kept as it was, so its diff deletes the original quad once more under
\* the old graph, whose patch had succeeded
C29_RetryAddressesFailedOnly ==
  Rejected =>
    \A uri \in SucceededURIs :
      /\ uri \notin KeySet(diff(promise.value.model))
      /\ Entry(diff(promise.value.model), uri).toDel = <<>>
      /\ Entry(diff(promise.value.model), uri).toIns = <<>>

(***************************************************************************)
(* C30: a pending deletion is not lost before save: once a field built     *)
(* from a quad was removed, the deletion of its original quad is in the    *)
(* diff of every model that add, set and remove derive from the result.    *)
(***************************************************************************)
\* violated: remove(loaded field), add(field) -- add builds its model
\* without the graveyard
C30_PendingDeletionKept ==
  [][(pc = "idle" /\ pc' = "idle") =>
       \A i \in 1..Len(model.graveyard) :
         LET f == model.graveyard[i]
         IN ~AdHoc(f) =>
              quadToString(originalQuad(f))
                \in Range(Entry(diff(model'), f.originalSource).toDel)]_vars

\* g holds the current state of f: value, listed flag and quad, and g is
\* unchanged
KeepsCurrentState(f, g) ==
  /\ g.value = f.value
  /\ g.listed = f.listed
  /\ toQuad(g) = toQuad(f)
  /\ quadEquals(toQuad(g), originalQuad(g))

(***************************************************************************)
(* C31: fromCurrentState preserves the current state of every field under  *)
(* every sourceConfig, one whose default graphs are absent from            *)
(* sourceIndex included: the result has the value and the listed flag of   *)
(* the input, its toQuad is the toQuad of the input, and it is unchanged.  *)
(***************************************************************************)
\* violated: with default graphs absent from sourceIndex a listed field
\* resolves to the default listed graph, and the field built from that
\* graph takes the classification of the graph, which is unlisted
C31_FromCurrentStateKeepsState ==
  /\ \A f \in Held(model) : KeepsCurrentState(f, fromCurrentState(nextId, f))
  /\ Settled =>
       \A p \in Positions(saved) :
         LET old == saved.fields[p[1]][p[2]]
             new == Produced.fields[p[1]][p[2]]
         IN new # old => KeepsCurrentState(old, new)

\* the outcome of the save of m as the set of succeeded resources alone
\* determines it: resolved exactly when every key of the diff succeeded,
\* the live fields that resolve to a succeeded resource rebuilt from their
\* current state (uuids drawn from firstId on), the others kept, and an
\* empty graveyard
OutcomeOf(m, succeededURIs, firstId) ==
  [state |-> IF KeySet(diff(m)) \subseteq succeededURIs THEN "resolved" ELSE "rejected",
   model |-> Model([k \in Keys |->
                      [i \in 1..Len(m.fields[k]) |->
                         IF RefGraph(m.fields[k][i]) \in succeededURIs
                           THEN fromCurrentState(firstId + Offset(m, k, i), m.fields[k][i])
                           ELSE m.fields[k][i]]],
                   <<>>)]

(***************************************************************************)
(* C32: the outcome of save depends only on which resources' patches       *)
(* succeeded: whatever the order in which the concurrent patch calls       *)
(* settle, save settles once all of them have, resolved or rejected and    *)
(* with the model that the set of succeeded resources determines.          *)
(***************************************************************************)
C32_OutcomeIndependentOfOrder ==
  (Settled /\ calls # <<>>) =>
    /\ unsettled = {}
    /\ SucceededURIs \cup FailedURIs = KeySet(diff(saved))
    /\ SucceededURIs \cap FailedURIs = {}
    /\ [state |-> promise.state, model |-> Produced]
         = OutcomeOf(saved, SucceededURIs, nextId - Len(Flatten(saved.fields)))

\* three patch calls settled, some with success and some without, and a
\* field was rebuilt
C32_Witness ==
  /\ Settled
  /\ Len(calls) >= 3
  /\ SucceededURIs # {}
  /\ FailedURIs # {}
  /\ \E p \in Positions(saved) :
       Produced.fields[p[1]][p[2]] # saved.fields[p[1]][p[2]]

(***************************************************************************)
(* Fairness: every patch call that was issued settles in the end, and the  *)
(* then callback of save runs once Promise.all has settled.                *)
(***************************************************************************)
LiveSpec ==
  /\ Spec
  /\ WF_vars(\E uri \in GraphURIs, succeeded \in BOOLEAN : PatchSettles(uri, succeeded))
  /\ WF_vars(SaveSettles)

\* the promise of save carries a model: the resolved model, or the model
\* of the error it rejected with
CarriesModel ==
  \/ /\ promise.state = "resolved"
     /\ DOMAIN promise.value = {"fields", "graveyard"}
  \/ /\ promise.state = "rejected"
     /\ "model" \in DOMAIN promise.value
     /\ DOMAIN promise.value.model = {"fields", "graveyard"}

(***************************************************************************)
(* C33: when every patch call issued by save settles in the end, save      *)
(* settles in the end, and it settles once: it resolves with a model or    *)
(* rejects with an error carrying a model, and the settled promise never   *)
(* changes afterwards.                                                     *)
(***************************************************************************)
C33_SaveSettlesOnce ==
  /\ (pc = "patching") ~> (pc = "settled" /\ CarriesModel)
  /\ [](pc = "settled" => CarriesModel)
  /\ [][promise.state # "pending" => (promise' = promise \/ pc' = "idle")]_vars

\* the second save of a caller rejected after two patch calls settled
C33_Witness ==
  /\ Rejected
  /\ saves = 2
  /\ Len(calls) = 2
  /\ unsettled = {}

\* the ids of the fields a model holds are pairwise different uuids that
\* were drawn before
FreshIds(m) ==
  LET held == Flatten(m.fields) \o m.graveyard
  IN /\ \A i, j \in 1..Len(held) : held[i].id = held[j].id => i = j
     /\ \A i \in 1..Len(held) : held[i].id \in 1..(nextId - 1)

\* the handle f identifies no live field of m: remove(f) and set(f, ...)
\* leave live fields and graveyard of m as they are
StaleHandle(f, m) ==
  /\ \A g \in Live(m) : g.id # f.id
  /\ remove(m, f.id).fields = m.fields
  /\ remove(m, f.id).graveyard = m.graveyard
  /\ \A value \in SetValues, listed \in SetFlags :
       /\ ModelSet(m, f.id, nextId', value, listed).fields = m.fields
       /\ ModelSet(m, f.id, nextId', value, listed).graveyard = m.graveyard

(***************************************************************************)
(* C34: every field that is built gets a fresh id, so after set(f, args)   *)
(* or after a save that promoted f the handle f identifies no live field:  *)
(* remove(f) and set(f, ...) on the resulting model leave its live fields  *)
(* and its graveyard unchanged.                                            *)
(***************************************************************************)
C34_FreshIds ==
  /\ [](FreshIds(model) /\ (Settled => FreshIds(Produced)))
  /\ [][\A f \in Live(model) : f \notin Live(model') => StaleHandle(f, model')]_vars

\* a loaded field was set, saved with success and promoted: its third id
C34_Witness ==
  /\ pc = "idle"
  /\ saves = 1
  /\ ops = 1
  /\ model.graveyard = <<>>
  /\ model.fields["phone"] = <<>>
  /\ Len(model.fields["name"]) = 1
  /\ model.fields["name"][1].id = 3
  /\ model.fields["name"][1].originalObject.value = "tel:1"

\* model.set(f, {listed: !f.listed}), by Field.toggleListed; f.id = id
Toggled(m, id, newId) ==
  map(m, [p \in Positions(m) |->
            LET field == m.fields[p[1]][p[2]]
            IN IF field.id = id THEN toggleListed(newId, field) ELSE field])

\* the other value
Other(value) == CHOOSE v \in Values : v # value

(***************************************************************************)
(* C35: changes that cancel out produce no diff: on a model whose diff is  *)
(* empty, toggling the listed flag of a loaded field twice, or setting its *)
(* value to another value and back to the original one, gives a model      *)
(* whose diff is empty again, also for a field loaded from a non-default   *)
(* graph or from a graph absent from sourceIndex.                          *)
(***************************************************************************)
C35_CancellingChanges ==
  diff(model) = <<>> =>
    \A f \in Live(model) :
      ~AdHoc(f) =>
        /\ diff(Toggled(Toggled(model, f.id, nextId), nextId, nextId + 1)) = <<>>
        /\ diff(ModelSet(ModelSet(model, f.id, nextId, Other(f.value), UndefinedFlag),
                         nextId, nextId + 1, f.originalObject.value, UndefinedFlag)) = <<>>
        /\ diff(ModelSet(ModelSet(model, f.id, nextId, Undefined, Flag(~f.listed)),
                         nextId, nextId + 1, Undefined, Flag(f.listed))) = <<>>

\* a field loaded from a graph absent from sourceIndex after two changes
\* that cancel out, the first of which moved it to a default graph
C35_Witness ==
  /\ saves = 0
  /\ ops = 2
  /\ model.graveyard = <<>>
  /\ model.fields["phone"] = <<>>
  /\ Len(model.fields["name"]) = 1
  /\ model.fields["name"][1].id = 3
  /\ model.fields["name"][1].originalSource = UnknownURI
  /\ diff(model) = <<>>
  /\ diff(Toggled(model, 3, nextId)) # <<>>

\* nothing of m differs from the quads its fields were built from
NothingChanged(m) ==
  /\ \A f \in Live(m) : ~AdHoc(f) /\ quadEquals(toQuad(f), originalQuad(f))
  /\ \A f \in Range(m.graveyard) : AdHoc(f)

NoEmptyEntry(m) ==
  /\ \A i \in 1..Len(diff(m)) : diff(m)[i].toDel # <<>> \/ diff(m)[i].toIns # <<>>
  /\ Len(diff(m)) = 0 <=> NothingChanged(m)

(***************************************************************************)
(* C36: every entry of a diff map is non-empty: under every key of diff()  *)
(* toDel or toIns holds a quad, so the diff has no key exactly when        *)
(* nothing changed, and save issues no patch call with nothing to delete   *)
(* and nothing to insert.                                                  *)
(***************************************************************************)
C36_NoEmptyEntry ==
  /\ NoEmptyEntry(model)
  /\ pc # "idle" =>
       /\ NoEmptyEntry(saved)
       /\ \A i \in 1..Len(calls) : calls[i].toDel # <<>> \/ calls[i].toIns # <<>>
       /\ calls = <<>> <=> NothingChanged(saved)
  /\ Settled => NoEmptyEntry(Produced)

\* a removed ad hoc field next to an unchanged loaded field: nothing
\* changed, and the diff has no key for the graph of the removed field
C36_Witness ==
  /\ pc = "idle"
  /\ saves = 0
  /\ ops = 2
  /\ \E f \in Range(model.graveyard) : AdHoc(f)
  /\ Live(model) # {}
  /\ NothingChanged(model)
  /\ diff(model) = <<>>

====
